---- MODULE Spec2Model ----
(***************************************************************************)
(* The interactive query loop of tools/reachability-analysis/main.py.      *)
(*                                                                         *)
(* main() prints a loading notice, loads the graph, and then runs a        *)
(* read-eval-print loop over standard input.  A line is a sequence of      *)
(* one-character strings, so that strip(), startswith() and slicing are    *)
(* computed on the characters as Python computes them.                     *)
(***************************************************************************)
EXTENDS Integers, Sequences, FiniteSets

VARIABLES
    pc,         \* position of main(): the source line about to execute
    exc,        \* the exception that ended the process, "none" while running
    input_str,  \* main's local input_str
    graph,      \* the state of the ReachabilityGraph object
    node,       \* main's local node (the record get_node returned)
    events,     \* prints and GraphStore calls since the last line was read
    nPrompts,   \* prompts printed since process start
    nReads,     \* reads of standard input started since process start
    calls,      \* GraphStore calls since process start, per operation
    loaded,     \* how graph.load ended: "no" (not called yet), "ok", "failed"
    stdin       \* standard input: a terminal (src "tty") or a file of lines
                \* of which pos are read; eof once a read hit end-of-input

vars == <<pc, exc, input_str, graph, node, events, nPrompts, nReads, calls,
          loaded, stdin>>

----------------------------------------------------------------------------
(* Bounds of the model *)

\* longest line typed by the user
MaxLen == 3

\* number of input() calls one run at a terminal may make
MaxReads == 3

\* number of lines of a file given as standard input
MaxSession == 4

----------------------------------------------------------------------------
(* Text *)

Whitespace == {" ", "\t"}

Chars == {"x", "s", "A"} \cup Whitespace

RECURSIVE SeqsUpTo(_)
SeqsUpTo(n) ==
    IF n = 0 THEN {<<>>}
    ELSE LET shorter == SeqsUpTo(n - 1)
         IN  shorter \cup {Append(s, c) : s \in {t \in shorter : Len(t) = n - 1}, c \in Chars}

\* lines in other letters: B and Z name a node of the two-node example graph
\* and a name absent from it, the others are the exit and search commands in
\* upper case and a search command behind a leading space
OtherLines ==
    {<<"B">>, <<"Z">>, <<"X">>, <<"S", " ", "A">>, <<" ", "s", " ", "A">>}

\* the lines standard input can deliver
Lines == SeqsUpTo(MaxLen) \cup OtherLines

\* the lines of the files given as standard input
SessionLines ==
    {<<"s", " ", "A">>, <<"A">>, <<"Z">>, <<"x">>, <<" ", "x">>, <<>>}

RECURSIVE SessionsUpTo(_)
SessionsUpTo(n) ==
    IF n = 0 THEN {<<>>}
    ELSE LET shorter == SessionsUpTo(n - 1)
         IN  shorter \cup {Append(s, l) : s \in {t \in shorter : Len(t) = n - 1},
                                          l \in SessionLines}

Sessions == SessionsUpTo(MaxSession)

\* the lines the next read of standard input can return
Available(st) ==
    IF st.src = "tty" THEN Lines
    ELSE IF st.pos < Len(st.lines) THEN {st.lines[st.pos + 1]}
    ELSE {}

\* standard input after a read returned a line
Consume(st) ==
    IF st.src = "tty" THEN st ELSE [st EXCEPT !.pos = @ + 1]

\* whether the next read of standard input can hit end-of-input
AtEOF(st) == st.src = "tty" \/ st.pos = Len(st.lines)

PROMPT_MSG == "Enter a node's name or 's {search term}' to search for one: "

LOADING_MSG == "Loading graph. This might take a couple of minutes"

\* str.lstrip()
RECURSIVE LStrip(_)
LStrip(s) ==
    IF s # <<>> /\ Head(s) \in Whitespace THEN LStrip(Tail(s)) ELSE s

\* str.rstrip()
RECURSIVE RStrip(_)
RStrip(s) ==
    IF s # <<>> /\ s[Len(s)] \in Whitespace
    THEN RStrip(SubSeq(s, 1, Len(s) - 1))
    ELSE s

\* str.strip()
Strip(s) == RStrip(LStrip(s))

\* str.startswith(prefix)
StartsWith(s, prefix) ==
    /\ Len(s) >= Len(prefix)
    /\ SubSeq(s, 1, Len(prefix)) = prefix

\* s[k:] for k >= 0
SliceFrom(s, k) == SubSeq(s, k + 1, Len(s))

\* sub in s
Contains(s, sub) ==
    \E i \in 0..(Len(s) - Len(sub)) : SubSeq(s, i + 1, i + Len(sub)) = sub

----------------------------------------------------------------------------
(* GraphStore: lib.core.ReachabilityGraph, used through load, list_nodes,   *)
(* get_node and repr of a node                                              *)

\* ReachabilityGraph(): no nodes until load
NewGraph == [names |-> <<>>, refs |-> {}]

\* nodes A and B where B references A
ExampleGraph ==
    [names |-> << <<"A">>, <<"B">> >>, refs |-> {<< <<"B">>, <<"A">> >>}]

\* node names that collide with the loop's command grammar
OddGraph ==
    [names |-> << <<"x">>, <<" ", "x">>, <<"s", " ", "A">>, <<" ">>, <<"A", " ">> >>,
     refs  |-> {<< <<"x">>, <<"A", " ">> >>}]

\* the graphs a dump file can hold
Graphs == {NewGraph, ExampleGraph, OddGraph}

NoNode == [name |-> <<>>, preds |-> <<>>, succs |-> <<>>]

HasNode(g, key) == \E i \in 1..Len(g.names) : g.names[i] = key

\* get_node(key) for a key of the graph: the node with exactly that name
GetNode(g, key) ==
    [name  |-> key,
     preds |-> SelectSeq(g.names, LAMBDA m : <<m, key>> \in g.refs),
     succs |-> SelectSeq(g.names, LAMBDA m : <<key, m>> \in g.refs)]

RECURSIVE Join(_)
Join(names) ==
    IF names = <<>> THEN <<>>
    ELSE Head(names) \o <<",">> \o Join(Tail(names))

\* repr(node): its name, the nodes that reach it, the nodes it references
Repr(n) ==
    <<"node ">> \o n.name \o <<" preds ">> \o Join(n.preds)
                \o <<" succs ">> \o Join(n.succs)

Stdout(text) == [kind |-> "print", text |-> text]

Call(op, arg) == [kind |-> op, text |-> arg]

\* list_nodes(term) prints every node name that contains term, in file order
RECURSIVE Listing(_, _)
Listing(names, term) ==
    IF names = <<>> THEN <<>>
    ELSE (IF Contains(Head(names), term) THEN <<Stdout(Head(names))>> ELSE <<>>)
         \o Listing(Tail(names), term)

----------------------------------------------------------------------------
(* main(): the pieces of the loop *)

\* one more input(PROMPT_MSG) after the loop
InputSitesAfterLoop == {"L48", "L51", "L55", "L64", "returned"}

InputSites == {"L48", "L51", "L55", "L64"}

\* a bare input() at line 51
PromptPrintBareAt51(site) ==
    IF site = "L51" THEN <<>> ELSE <<Stdout(<<PROMPT_MSG>>)>>

\* input(PROMPT_MSG) writes its prompt before it reads
PromptPrint(site) == <<Stdout(<<PROMPT_MSG>>)>>

\* no notice printed
NoticePrintMissing == <<>>

\* print("Loading graph. ...")
NoticePrint == <<Stdout(<<LOADING_MSG>>)>>

\* the load error swallowed, main goes on to line 48
OnLoadErrorSwallowed == "L48"

\* graph.load(args.input) is not inside a try: its exception leaves main
OnLoadError == "raised"

\* the read inside the try, its EOFError handled like a lookup miss
OnEOFTakenAsMiss == "L63"

\* no input(PROMPT_MSG) is inside a try: EOFError leaves main
OnEOF == "raised"

\* while input_str.lower() != "x"
BranchExitAnyCase(s) ==
    IF s \in {<<"x">>, <<"X">>} THEN "returned"
    ELSE IF Strip(s) = <<>> THEN "L51"
    ELSE IF StartsWith(s, <<"s", " ">>) THEN "L54"
    ELSE "L60"

\* while input_str.strip() != "x"
BranchTrimExit(s) ==
    IF Strip(s) = <<"x">> THEN "returned"
    ELSE IF Strip(s) = <<>> THEN "L51"
    ELSE IF StartsWith(s, <<"s", " ">>) THEN "L54"
    ELSE "L60"

\* if not input_str
BranchNoStrip(s) ==
    IF s = <<"x">> THEN "returned"
    ELSE IF s = <<>> THEN "L51"
    ELSE IF StartsWith(s, <<"s", " ">>) THEN "L54"
    ELSE "L60"

\* if input_str.lstrip().startswith("s ")
BranchLStripSearch(s) ==
    IF s = <<"x">> THEN "returned"
    ELSE IF Strip(s) = <<>> THEN "L51"
    ELSE IF StartsWith(LStrip(s), <<"s", " ">>) THEN "L54"
    ELSE "L60"

\* if input_str.startswith("s ") and input_str[2:]
BranchSearchNeedsTerm(s) ==
    IF s = <<"x">> THEN "returned"
    ELSE IF Strip(s) = <<>> THEN "L51"
    ELSE IF StartsWith(s, <<"s", " ">>) /\ SliceFrom(s, 2) # <<>> THEN "L54"
    ELSE "L60"

\* the while test and the two if tests, in the order main makes them
Branch(s) ==
    IF s = <<"x">> THEN "returned"
    ELSE IF Strip(s) = <<>> THEN "L51"
    ELSE IF StartsWith(s, <<"s", " ">>) THEN "L54"
    ELSE "L60"

\* input_str[2:].strip()
SearchTermStripped(s) == Strip(SliceFrom(s, 2))

\* the whole line passed as the term
SearchTermWholeLine(s) == s

\* input_str[2:]
SearchTerm(s) == SliceFrom(s, 2)

\* graph.get_node(input_str.strip())
LookupKeyStripped(s) == Strip(s)

\* graph.get_node(input_str)
LookupKey(s) == s

\* except ValueError: the KeyError of a miss leaves main
AfterGetNodeUncaught(found) == IF found THEN "L61" ELSE "raised"

\* the message printed whether or not the node was found
AfterGetNodeAlwaysMiss(found) == "L63"

\* try: node = graph.get_node(...); print(repr(node))  except KeyError: ...
AfterGetNode(found) == IF found THEN "L61" ELSE "L63"

\* the kinds of exception a GraphStore call or repr can raise
Exceptions == {"KeyError", "OtherError"}

\* lines 60 and 61 are both inside try ... except KeyError: a KeyError raised
\* there goes to line 63, any other exception leaves main
OnErrorInTry(e) == IF e = "KeyError" THEN "L63" ELSE "raised"

\* f"Cannot find a node named '{input_str.strip()}'"
NotFoundMsgStripped(s) == <<"Cannot find a node named '">> \o Strip(s) \o <<"'">>

\* f"Cannot find a node named '{input_str}'"
NotFoundMsg(s) == <<"Cannot find a node named '">> \o s \o <<"'">>

----------------------------------------------------------------------------
(* main(): the steps *)

Init ==
    /\ pc = "L45"
    /\ exc = "none"
    /\ input_str = <<>>
    /\ graph = NewGraph
    /\ node = NoNode
    /\ events = <<>>
    /\ nPrompts = 0
    /\ nReads = 0
    /\ calls = [load |-> 0, search |-> 0, lookup |-> 0]
    /\ loaded = "no"
    /\ stdin = [src |-> "tty", lines |-> <<>>, pos |-> 0, eof |-> FALSE]

\* line 45
PrintNotice ==
    /\ pc = "L45"
    /\ events' = events \o NoticePrint
    /\ pc' = "L46"
    /\ UNCHANGED <<exc, input_str, graph, node, nPrompts, nReads, calls,
                 loaded, stdin>>

\* line 46, load returns
Load ==
    /\ pc = "L46"
    /\ \E g \in Graphs : graph' = g
    /\ calls' = [calls EXCEPT !.load = @ + 1]
    /\ events' = Append(events, Call("load", <<>>))
    /\ loaded' = "ok"
    /\ pc' = "L48"
    /\ UNCHANGED <<exc, input_str, node, nPrompts, nReads, stdin>>

\* line 46, load raises (missing or malformed file)
LoadFails ==
    /\ pc = "L46"
    /\ calls' = [calls EXCEPT !.load = @ + 1]
    /\ events' = Append(events, Call("load", <<>>))
    /\ loaded' = "failed"
    /\ pc' = OnLoadError
    /\ exc' = IF pc' = "raised" THEN "LoadError" ELSE exc
    /\ UNCHANGED <<input_str, graph, node, nPrompts, nReads, stdin>>

\* lines 48, 51, 55, 64: input(PROMPT_MSG) prints the prompt and blocks
CallInput ==
    /\ pc \in InputSites
    /\ stdin.src = "tty" => nReads < MaxReads
    /\ events' = events \o PromptPrint(pc)
    /\ nPrompts' = nPrompts + Len(PromptPrint(pc))
    /\ nReads' = nReads + 1
    /\ pc' = "reading"
    /\ UNCHANGED <<exc, input_str, graph, node, calls, loaded, stdin>>

\* input() returns a line, assigned to input_str; control is at the while test
ReadLine ==
    /\ pc = "reading"
    /\ \E l \in Available(stdin) : input_str' = l
    /\ stdin' = Consume(stdin)
    /\ events' = <<>>
    /\ pc' = "L49"
    /\ UNCHANGED <<exc, graph, node, nPrompts, nReads, calls, loaded>>

\* input() raises EOFError, which main does not catch
ReadEOF ==
    /\ pc = "reading"
    /\ AtEOF(stdin)
    /\ stdin' = [stdin EXCEPT !.eof = TRUE]
    /\ pc' = OnEOF
    /\ exc' = IF pc' = "raised" THEN "EOFError" ELSE exc
    /\ UNCHANGED <<input_str, graph, node, events, nPrompts, nReads, calls, loaded>>

\* a line that names a node looked up before any other test
DispatchNodeFirst ==
    /\ pc = "L49"
    /\ pc' = IF HasNode(graph, input_str) THEN "L60" ELSE Branch(input_str)
    /\ UNCHANGED <<exc, input_str, graph, node, events, nPrompts, nReads, calls,
                 loaded, stdin>>

\* lines 49, 50, 53
Dispatch ==
    /\ pc = "L49"
    /\ pc' = Branch(input_str)
    /\ UNCHANGED <<exc, input_str, graph, node, events, nPrompts, nReads,
                 calls, loaded, stdin>>

\* the graph loaded again before each search
SearchReloading ==
    /\ pc = "L54"
    /\ \E g \in Graphs : graph' = g
    /\ calls' = [calls EXCEPT !.search = @ + 1, !.load = @ + 1]
    /\ events' = Append(events, Call("search", SearchTerm(input_str)))
                 \o Listing(graph'.names, SearchTerm(input_str))
    /\ pc' = "L55"
    /\ UNCHANGED <<exc, input_str, node, nPrompts, nReads, loaded, stdin>>

\* line 54
Search ==
    /\ pc = "L54"
    /\ calls' = [calls EXCEPT !.search = @ + 1]
    /\ events' = Append(events, Call("search", SearchTerm(input_str)))
                 \o Listing(graph.names, SearchTerm(input_str))
    /\ pc' = "L55"
    /\ UNCHANGED <<exc, input_str, graph, node, nPrompts, nReads, loaded,
                 stdin>>

\* line 60, with the KeyError caught at line 62
Lookup ==
    /\ pc = "L60"
    /\ calls' = [calls EXCEPT !.lookup = @ + 1]
    /\ events' = Append(events, Call("lookup", LookupKey(input_str)))
    /\ LET found == HasNode(graph, LookupKey(input_str))
       IN  /\ node' = IF found THEN GetNode(graph, LookupKey(input_str)) ELSE node
           /\ pc' = AfterGetNode(found)
    /\ UNCHANGED <<exc, input_str, graph, nPrompts, nReads, loaded, stdin>>

\* line 61
PrintNode ==
    /\ pc = "L61"
    /\ events' = Append(events, Stdout(Repr(node)))
    /\ pc' = "L64"
    /\ UNCHANGED <<exc, input_str, graph, node, nPrompts, nReads, calls,
                 loaded, stdin>>

\* line 63
PrintNotFound ==
    /\ pc = "L63"
    /\ events' = Append(events, Stdout(NotFoundMsg(input_str)))
    /\ pc' = "L64"
    /\ UNCHANGED <<exc, input_str, graph, node, nPrompts, nReads, calls,
                 loaded, stdin>>

\* line 54, list_nodes raises: the call is outside the try
SearchFails ==
    /\ pc = "L54"
    /\ calls' = [calls EXCEPT !.search = @ + 1]
    /\ events' = Append(events, Call("search", SearchTerm(input_str)))
    /\ \E e \in Exceptions : exc' = e
    /\ pc' = "raised"
    /\ UNCHANGED <<input_str, graph, node, nPrompts, nReads, loaded, stdin>>

\* line 60, get_node raises something other than the KeyError of a miss
LookupFails ==
    /\ pc = "L60"
    /\ calls' = [calls EXCEPT !.lookup = @ + 1]
    /\ events' = Append(events, Call("lookup", LookupKey(input_str)))
    /\ \E e \in Exceptions \ {"KeyError"} :
          /\ pc' = OnErrorInTry(e)
          /\ exc' = IF pc' = "raised" THEN e ELSE exc
    /\ UNCHANGED <<input_str, graph, node, nPrompts, nReads, loaded, stdin>>

\* line 61, repr(node) raises: nothing is printed
RenderFails ==
    /\ pc = "L61"
    /\ \E e \in Exceptions :
          /\ pc' = OnErrorInTry(e)
          /\ exc' = IF pc' = "raised" THEN e ELSE exc
    /\ UNCHANGED <<input_str, graph, node, events, nPrompts, nReads, calls,
                 loaded, stdin>>

Next ==
    \/ PrintNotice
    \/ Load
    \/ LoadFails
    \/ CallInput
    \/ ReadLine
    \/ ReadEOF
    \/ Dispatch
    \/ Search
    \/ Lookup
    \/ PrintNode
    \/ PrintNotFound

\* a run at a terminal: any line may be typed at any read
Spec == Init /\ [][Next]_vars

\* a run at a terminal in which the calls to GraphStore and repr may also fail
NextFaulty ==
    \/ Next
    \/ SearchFails
    \/ LookupFails
    \/ RenderFails

SpecFaulty == Init /\ [][NextFaulty]_vars

\* a run whose standard input is a file of at most MaxSession lines
InitSession ==
    /\ pc = "L45"
    /\ exc = "none"
    /\ input_str = <<>>
    /\ graph = NewGraph
    /\ node = NoNode
    /\ events = <<>>
    /\ nPrompts = 0
    /\ nReads = 0
    /\ calls = [load |-> 0, search |-> 0, lookup |-> 0]
    /\ loaded = "no"
    /\ \E s \in Sessions :
          stdin = [src |-> "file", lines |-> s, pos |-> 0, eof |-> FALSE]

SpecSession == InitSession /\ [][Next]_vars

\* main is one sequential thread: while a step is possible (load, search and
\* lookup return, a line or end-of-input is there to read) the next one is taken
FairSession == InitSession /\ [][Next]_vars /\ WF_vars(Next)

TypeOK ==
    /\ pc \in InputSites \cup {"L45", "L46", "L49", "L54", "L60", "L61", "L63",
                               "reading", "returned", "raised"}
    /\ exc \in {"none", "LoadError", "EOFError"} \cup Exceptions
    /\ input_str \in Lines
    /\ graph \in Graphs
    /\ nPrompts \in 0..(MaxReads + MaxSession + 1)
    /\ nReads \in 0..(MaxReads + MaxSession + 1)
    /\ loaded \in {"no", "ok", "failed"}
    /\ stdin.src \in {"tty", "file"}
    /\ stdin.lines \in Sessions
    /\ stdin.pos \in 0..Len(stdin.lines)
    /\ stdin.eof \in BOOLEAN

----------------------------------------------------------------------------
(* Vocabulary of the properties *)

\* the line in input_str has been through the tests of lines 49 to 53
Dispatched == pc \in {"L51", "L54", "L55", "L60", "L61", "L63", "L64", "returned"}

\* the iteration for the line in input_str is over: main is about to call
\* input() again, or has left the loop
IterEnded == pc \in {"L51", "L55", "L64", "returned"}

PromptEvent == Stdout(<<PROMPT_MSG>>)

IsBlank(s) == \A i \in 1..Len(s) : s[i] \in Whitespace

IsSearchLine(s) == Len(s) >= 2 /\ s[1] = "s" /\ s[2] = " "

\* the line without its first two characters
Remainder(s) == [i \in 1..(Len(s) - 2) |-> s[i + 2]]

CountKind(evs, kind) == Cardinality({i \in 1..Len(evs) : evs[i].kind = kind})

IsNotFoundPrint(e) ==
    /\ e.kind = "print"
    /\ e.text # <<>>
    /\ e.text[1] = "Cannot find a node named '"

NoNotFoundPrint(evs) == \A i \in 1..Len(evs) : ~IsNotFoundPrint(evs[i])

NodeNames(g) == {g.names[i] : i \in 1..Len(g.names)}

----------------------------------------------------------------------------
(* The properties *)

\* C1: the loop ends normally exactly when the line read is the one-character
\* string x, untrimmed; after X, "x ", " x" and "xx" the loop does not end and
\* goes on to prompt again.
C1_ExitOnlyOnExactX ==
    /\ Dispatched => (pc = "returned" <=> input_str = <<"x">>)
    /\ (IterEnded /\ input_str \in {<<"X">>, <<"x", " ">>, <<" ", "x">>, <<"x", "x">>})
          => pc \in InputSites
    /\ (pc = "reading" /\ nReads > 1) =>
          /\ input_str # <<"x">>
          /\ events[Len(events)] = PromptEvent

C1_Witness ==
    /\ pc = "reading"
    /\ nReads = 2
    /\ input_str = <<"x", " ">>

\* where the classifier of the claim sends a line
ClaimedTargets(cmd) ==
    CASE cmd = "Empty"  -> {"L51"}
      [] cmd = "Exit"   -> {"returned"}
      [] cmd = "Search" -> {"L54", "L55"}
      [] cmd = "Lookup" -> {"L60", "L61", "L63", "L64"}

\* C2 as stated: rules in the order Empty, Exit, Search, Lookup, first match
\* wins, with Exit decided on the trimmed line, so that every line whose
\* trimmed form is x ends the loop.
C2_ExitOnTrimmedLine ==
    Dispatched =>
        pc \in ClaimedTargets(
            IF IsBlank(input_str) THEN "Empty"
            ELSE IF Strip(input_str) = <<"x">> THEN "Exit"
            ELSE IF IsSearchLine(input_str) THEN "Search"
            ELSE "Lookup")

\* C2 (amended): rules in the order Empty, Exit, Search, Lookup, first match
\* wins, with Exit decided on the raw line: only the line that is exactly x is
\* Exit and ends the loop; a line with whitespace around the x is a Lookup of
\* the raw line.
C2_ExitOnRawLine ==
    /\ Dispatched =>
          pc \in ClaimedTargets(
              IF IsBlank(input_str) THEN "Empty"
              ELSE IF input_str = <<"x">> THEN "Exit"
              ELSE IF IsSearchLine(input_str) THEN "Search"
              ELSE "Lookup")
    /\ (Dispatched /\ Strip(input_str) = <<"x">> /\ input_str # <<"x">>) =>
          /\ pc \in ClaimedTargets("Lookup")
          /\ pc # "L60" => events[1] = Call("lookup", input_str)

C2_Witness ==
    /\ pc = "L61"
    /\ input_str = <<" ", "x">>
    /\ graph = OddGraph

\* C3: after an empty or whitespace-only line the loop calls neither search
\* nor lookup, prints nothing but the next prompt, does not end, and reads the
\* next line.
C3_BlankLineReprompts ==
    /\ (Dispatched /\ IsBlank(input_str)) =>
          /\ pc = "L51"
          /\ events = <<>>
          /\ exc = "none"
    /\ (pc = "reading" /\ nReads > 1 /\ IsBlank(input_str)) =>
          events = <<PromptEvent>>

C3_Witness ==
    /\ pc = "reading"
    /\ nReads = 3
    /\ input_str = <<" ", "\t">>
    /\ events = <<PromptEvent>>

\* C4: for a line that begins with s and a space the loop calls search exactly
\* once, with the rest of the line after those two characters, untrimmed (the
\* empty term for "s "), calls no lookup, prints no NotFound message, and goes
\* back to prompting.
C4_SearchVerbatimTerm ==
    (Dispatched /\ IsSearchLine(input_str)) =>
        /\ pc \in {"L54", "L55"}
        /\ exc = "none"
        /\ pc = "L54" => events = <<>>
        /\ pc = "L55" =>
              /\ events[1] = Call("search", Remainder(input_str))
              /\ CountKind(events, "search") = 1
              /\ CountKind(events, "lookup") = 0
              /\ NoNotFoundPrint(events)

C4_Witness ==
    /\ pc = "L55"
    /\ input_str = <<"s", " ">>
    /\ graph = OddGraph
    /\ Len(events) = 6

\* C5: for a line that is not x, not blank and does not begin with s and a
\* space, the loop calls lookup exactly once, with the raw line as typed as
\* the key (leading and trailing whitespace kept), and calls no search.
C5_LookupRawKey ==
    (Dispatched /\ input_str # <<"x">> /\ ~IsBlank(input_str)
                /\ ~IsSearchLine(input_str)) =>
        /\ pc \in {"L60", "L61", "L63", "L64"}
        /\ pc = "L60" => events = <<>>
        /\ pc # "L60" =>
              /\ events[1] = Call("lookup", input_str)
              /\ CountKind(events, "lookup") = 1
              /\ CountKind(events, "search") = 0

C5_Witness ==
    /\ pc = "L64"
    /\ input_str = <<" ", "A", " ">>
    /\ events[1] = Call("lookup", <<" ", "A", " ">>)

\* C6: a lookup for a name absent from the loaded graph prints exactly one
\* message, Cannot find a node named '<name>' with <name> the raw line, prints
\* no node rendering, raises nothing and does not end the loop, which goes on
\* to prompt for the next line.
C6_NotFoundMessage ==
    (pc \in {"L61", "L63", "L64"} /\ input_str \notin NodeNames(graph)) =>
        /\ pc \in {"L63", "L64"}
        /\ exc = "none"
        /\ pc = "L63" => events = <<Call("lookup", input_str)>>
        /\ pc = "L64" =>
              events = <<Call("lookup", input_str),
                         Stdout(<<"Cannot find a node named '">> \o input_str \o <<"'">>)>>

C6_Witness ==
    /\ pc = "L64"
    /\ graph = ExampleGraph
    /\ input_str = <<"A", " ">>
    /\ Len(events) = 2

\* C7: a lookup for a name present in the loaded graph prints the rendering of
\* exactly the node GraphStore returned for that key, prints no NotFound
\* message, and the loop goes on to prompt for the next line without ending.
C7_FoundNodeRendered ==
    (pc \in {"L61", "L63", "L64"} /\ input_str \in NodeNames(graph)) =>
        /\ pc \in {"L61", "L64"}
        /\ exc = "none"
        /\ node = GetNode(graph, input_str)
        /\ node.name = input_str
        /\ pc = "L61" => events = <<Call("lookup", input_str)>>
        /\ pc = "L64" =>
              /\ events = <<Call("lookup", input_str), Stdout(Repr(node))>>
              /\ NoNotFoundPrint(events)

C7_Witness ==
    /\ pc = "L64"
    /\ graph = ExampleGraph
    /\ input_str = <<"A">>
    /\ events[2] = Stdout(<<"node ", "A", " preds ", "B", ",", " succs ">>)

\* C8: every read of standard input is immediately preceded by one print of
\* the prompt, on every path through the loop: in every state the number of
\* prompts printed equals the number of reads started, and while a read is
\* pending the last thing printed is the prompt.
C8_PromptBeforeEveryRead ==
    /\ nPrompts = nReads
    /\ pc = "reading" =>
          /\ events # <<>>
          /\ events[Len(events)] = PromptEvent
          /\ Cardinality({i \in 1..Len(events) : events[i] = PromptEvent}) = 1

C8_Witness ==
    /\ pc = "reading"
    /\ nReads = 3
    /\ nPrompts = 3
    /\ Len(events) = 3
    /\ IsNotFoundPrint(events[2])

LoadEvent == Call("load", <<>>)

NoticeEvent == Stdout(<<LOADING_MSG>>)

\* C9 as stated: load is invoked, then the notice is printed, then the first
\* prompt; nothing happens between the notice and the first prompt.
C9_LoadThenNotice ==
    /\ pc = "L48" => events = <<LoadEvent, NoticeEvent>>
    /\ (pc = "reading" /\ nReads = 1) =>
          events = <<LoadEvent, NoticeEvent, PromptEvent>>

\* C9 (amended): the loading notice is printed, then load is invoked, then the
\* loop prints the first prompt; the first prompt comes immediately after load
\* returns, with no other operation between them.
C9_NoticeThenLoad ==
    /\ pc = "L46" => events = <<NoticeEvent>>
    /\ pc = "L48" => events = <<NoticeEvent, LoadEvent>>
    /\ (pc = "reading" /\ nReads = 1) =>
          events = <<NoticeEvent, LoadEvent, PromptEvent>>

C9_Witness ==
    /\ pc = "reading"
    /\ nReads = 1
    /\ loaded = "ok"
    /\ graph = ExampleGraph

\* C10: a failure of load is not caught: the process ends abnormally, and in
\* that run no prompt is printed, no line is read, and no search or lookup is
\* issued.
C10_LoadFailureFatal ==
    loaded = "failed" =>
        /\ pc = "raised"
        /\ exc = "LoadError"
        /\ nPrompts = 0
        /\ nReads = 0
        /\ calls.search = 0
        /\ calls.lookup = 0
        /\ events = <<NoticeEvent, LoadEvent>>

C10_Witness ==
    /\ loaded = "failed"
    /\ pc = "raised"
    /\ calls.load = 1

\* C11: end-of-input at any read, the first or a later one, is not caught: the
\* process ends in an abnormal state distinct from the clean exit reached by
\* x, nothing is printed after the prompt of that read (no NotFound message),
\* and no further prompt, search or lookup follows.
C11_EOFFatal ==
    stdin.eof =>
        /\ pc = "raised"
        /\ pc # "returned"
        /\ exc = "EOFError"
        /\ events # <<>>
        /\ events[Len(events)] = PromptEvent
        /\ nPrompts = nReads
        /\ ~ENABLED Next

C11_Witness ==
    /\ stdin.eof
    /\ pc = "raised"
    /\ nReads = 2
    /\ calls.lookup = 1

\* the session of the example: s A, A, Z, x
ExampleSession == << <<"s", " ", "A">>, <<"A">>, <<"Z">>, <<"x">> >>

\* C12: on the graph of nodes A and B where B references A, the input lines
\* s A, A, Z, x produce, in this order: a search for the term A that lists A,
\* the rendering of node A, the message Cannot find a node named 'Z', and a
\* clean end, with exactly four prompts printed and nothing after the exit.
C12_ExampleSession ==
    (stdin.src = "file" /\ stdin.lines = ExampleSession /\ graph = ExampleGraph) =>
        /\ exc = "none"
        /\ pc # "raised"
        /\ nPrompts <= 4
        /\ pc = "reading" => nPrompts = stdin.pos + 1
        /\ (IterEnded /\ stdin.pos = 1) =>
              /\ pc = "L55"
              /\ events = <<Call("search", <<"A">>), Stdout(<<"A">>)>>
        /\ (IterEnded /\ stdin.pos = 2) =>
              /\ pc = "L64"
              /\ events = <<Call("lookup", <<"A">>),
                            Stdout(<<"node ", "A", " preds ", "B", ",", " succs ">>)>>
        /\ (IterEnded /\ stdin.pos = 3) =>
              /\ pc = "L64"
              /\ events = <<Call("lookup", <<"Z">>),
                            Stdout(<<"Cannot find a node named '", "Z", "'">>)>>
        /\ (Dispatched /\ stdin.pos = 4) =>
              /\ pc = "returned"
              /\ events = <<>>
              /\ nPrompts = 4
              /\ calls = [load |-> 1, search |-> 1, lookup |-> 2]
              /\ ~ENABLED Next

C12_Witness ==
    /\ stdin.src = "file"
    /\ stdin.lines = ExampleSession
    /\ graph = ExampleGraph
    /\ pc = "returned"
    /\ nPrompts = 4

\* C13: load is invoked exactly once per run, before any search or lookup;
\* after load, every step of the loop leaves the graph as it is: the loop only
\* searches and looks up, and never loads again, whatever lines are read.
C13_LoadOnceGraphFrozen ==
    /\ [](/\ calls.load <= 1
          /\ calls.load = 1 <=> loaded # "no"
          /\ pc \notin {"L45", "L46"} => calls.load = 1
          /\ (calls.search > 0 \/ calls.lookup > 0) => loaded = "ok"
          /\ loaded # "ok" => graph = NewGraph)
    /\ [][loaded # "no" => /\ graph' = graph
                           /\ calls'.load = calls.load
                           /\ loaded' = loaded]_vars

C13_Witness ==
    /\ loaded = "ok"
    /\ graph = OddGraph
    /\ calls = [load |-> 1, search |-> 1, lookup |-> 1]
    /\ pc = "L64"

Commands == {"Empty", "Exit", "Search", "Lookup"}

\* whether a line is of a command, each kind told by the line alone
IsOf(cmd, s) ==
    CASE cmd = "Empty"  -> IsBlank(s)
      [] cmd = "Exit"   -> s = <<"x">>
      [] cmd = "Search" -> IsSearchLine(s)
      [] cmd = "Lookup" -> ~IsBlank(s) /\ s # <<"x">> /\ ~IsSearchLine(s)

\* C14: every line read is dispatched to exactly one of Empty, Exit, Search,
\* Lookup, and classifying raises no error; per line the loop makes at most
\* one GraphStore call, never a search and a lookup both, and the outcome
\* depends on the line alone, not on earlier lines or on the graph.
C14_OneOutcomePerLine ==
    /\ [](Dispatched =>
            /\ exc = "none"
            /\ Cardinality({c \in Commands : pc \in ClaimedTargets(c)}) = 1
            /\ \A c \in Commands : pc \in ClaimedTargets(c) <=> IsOf(c, input_str)
            /\ CountKind(events, "search") + CountKind(events, "lookup") <= 1
            /\ CountKind(events, "search") = IF pc = "L55" THEN 1 ELSE 0
            /\ CountKind(events, "lookup")
                 = IF pc \in {"L61", "L63", "L64"} THEN 1 ELSE 0)
    /\ [][pc = "L49" =>
            /\ pc' \in {"L49", "L51", "L54", "L60", "returned"}
            /\ exc' = "none"
            /\ \A c \in Commands :
                  (IsOf(c, input_str) /\ pc' # "L49") => pc' \in ClaimedTargets(c)]_vars

C14_Witness ==
    /\ pc = "returned"
    /\ graph = OddGraph
    /\ nReads = 3
    /\ calls = [load |-> 1, search |-> 1, lookup |-> 1]

\* C15: Terminated is terminal: once the exit line is read no prompt is
\* printed, no line is read, nothing is output and no GraphStore operation is
\* called; and the normal end is never reached after an Empty, Search or
\* Lookup dispatch, found or not.
C15_TerminatedIsTerminal ==
    /\ [](pc = "returned" =>
            /\ input_str = <<"x">>
            /\ events = <<>>
            /\ exc = "none"
            /\ nPrompts = nReads
            /\ ~ENABLED Next)
    /\ [][(pc = "L49" /\ input_str = <<"x">>) =>
            /\ pc' = "returned"
            /\ UNCHANGED <<events, nPrompts, nReads, calls, stdin>>]_vars
    /\ [][pc' = "returned" => pc \in {"L49", "returned"}]_vars

C15_Witness ==
    /\ pc = "returned"
    /\ nReads = 3
    /\ calls = [load |-> 1, search |-> 0, lookup |-> 2]
    /\ graph = ExampleGraph

\* the place of the first exit line in a file, 0 when it has none
RECURSIVE FirstExit(_)
FirstExit(lines) ==
    IF lines = <<>> THEN 0
    ELSE IF Head(lines) = <<"x">> THEN 1
    ELSE LET k == FirstExit(Tail(lines)) IN IF k = 0 THEN 0 ELSE k + 1

\* C16: when load succeeds, search and lookup return, and the input holds the
\* exit line x as its k-th line with no end-of-input before it, the loop
\* eventually reaches Terminated, after exactly k reads: every other dispatch
\* comes back to prompting and the loop is never stuck in a dispatch.
C16_ReachesTerminated ==
    /\ \A k \in 1..MaxSession :
          (loaded = "ok" /\ FirstExit(stdin.lines) = k)
              ~> (pc = "returned" /\ nReads = k /\ stdin.pos = k)
    /\ [](pc = "returned" => nReads = FirstExit(stdin.lines))
    /\ [](pc \in {"L51", "L55", "L64"} => ENABLED CallInput)

C16_Witness ==
    /\ stdin.lines = << <<>>, <<"Z">>, <<"s", " ", "A">>, <<"x">> >>
    /\ pc = "returned"
    /\ nReads = 4
    /\ loaded = "ok"

\* C17 as stated: every non-blank line that does not start with s and a space
\* is dispatched as a lookup of the whole raw line, never as a search.
C17_NonSearchLineIsLookup ==
    (Dispatched /\ ~IsBlank(input_str) /\ ~IsSearchLine(input_str)) =>
        /\ pc \in {"L60", "L61", "L63", "L64"}
        /\ CountKind(events, "search") = 0
        /\ pc # "L60" => events[1] = Call("lookup", input_str)

\* C17 (amended): the search prefix is tested on the untrimmed line: a
\* non-blank line other than the exit line x that does not start with s and a
\* space (" s ", s alone, sA, "S A") is never dispatched as a search; it is
\* dispatched as a lookup whose key is the whole raw line.
C17_PrefixOnRawLine ==
    /\ pc \in {"L54", "L55"} => IsSearchLine(input_str)
    /\ ~IsSearchLine(input_str) => CountKind(events, "search") = 0
    /\ (Dispatched /\ ~IsBlank(input_str) /\ ~IsSearchLine(input_str)
                   /\ input_str # <<"x">>) =>
          /\ pc \in {"L60", "L61", "L63", "L64"}
          /\ Len(events) <= 2
          /\ pc # "L60" => events[1] = Call("lookup", input_str)
    /\ (IterEnded /\ input_str \in {<<" ", "s", " ", "A">>, <<"s">>, <<"s", "A">>,
                                    <<"S", " ", "A">>, <<"\t", "s", " ">>}) =>
          /\ pc = "L64"
          /\ events[1] = Call("lookup", input_str)

C17_Witness ==
    /\ pc = "L64"
    /\ input_str = <<" ", "s", " ", "A">>
    /\ events[1] = Call("lookup", <<" ", "s", " ", "A">>)
    /\ calls.search = 0

\* C18: the NotFound message is printed only after a Lookup dispatch whose
\* get_node reported the key missing: never after an Empty, Exit or Search
\* dispatch, never for a key that is in the graph, also when rendering the
\* found node fails, and a failure other than a lookup miss ends the process
\* instead of being turned into the message.
C18_MessageOnlyOnMiss ==
    /\ \A i \in 1..Len(events) :
          IsNotFoundPrint(events[i]) =>
              /\ i = 2
              /\ events[1] = Call("lookup", input_str)
              /\ input_str \notin NodeNames(graph)
              /\ ~IsBlank(input_str)
              /\ ~IsSearchLine(input_str)
              /\ input_str # <<"x">>
    /\ pc = "L63" => input_str \notin NodeNames(graph)
    /\ exc \in Exceptions => (pc = "raised" /\ NoNotFoundPrint(events))

\* C19: lookup is never called with a key that is exactly x, that is empty or
\* whitespace-only, or that starts with s and a space: a node with such a name
\* cannot be looked up through the loop, whatever the graph holds.
C19_UnreachableKeys ==
    /\ \A i \in 1..Len(events) :
          events[i].kind = "lookup" =>
              /\ events[i].text # <<"x">>
              /\ ~IsBlank(events[i].text)
              /\ ~IsSearchLine(events[i].text)
    /\ (Dispatched /\ (\/ input_str = <<"x">>
                       \/ IsBlank(input_str)
                       \/ IsSearchLine(input_str))) =>
          /\ pc \notin {"L60", "L61", "L63", "L64"}
          /\ CountKind(events, "lookup") = 0
          /\ \A i \in 1..Len(events) : events[i] # Stdout(Repr(GetNode(graph, input_str)))

C19_Witness ==
    /\ graph = OddGraph
    /\ input_str = <<"s", " ", "A">>
    /\ input_str \in NodeNames(graph)
    /\ pc = "L55"
    /\ calls.lookup = 0

====
